---- MODULE Spec2Model ----
(***************************************************************************)
(* Gas metering contract of the Move VM (language/move-vm/types/src/gas.rs) *)
(*                                                                         *)
(* The module models                                                       *)
(*   - the SimpleInstruction enumeration,                                  *)
(*   - the GasMeter trait: the method surface and what every method call   *)
(*     carries to the implementing policy,                                 *)
(*   - UnmeteredGasMeter, the policy whose every method is `Ok(())`,       *)
(*   - execution sessions, each owning one policy instance and driving it  *)
(*     with one charge call per step.                                      *)
(***************************************************************************)
EXTENDS Integers, Sequences, FiniteSets, TLC

\* ------------------------------------------------------------------ bounds
MaxBytes == 1
MaxGas == 1
MaxArgs == 2
MaxTyArgs == 1
MaxCalls == 2
MaxScript == 3

\* ----------------------------------------------------------- instruction tags
SimpleInstruction ==
    { "Nop", "Ret",
      "BrTrue", "BrFalse", "Branch",
      "Pop", "LdU8", "LdU16", "LdU32", "LdU64", "LdU128", "LdU256",
      "LdTrue", "LdFalse",
      "FreezeRef", "MutBorrowLoc", "ImmBorrowLoc", "ImmBorrowField",
      "MutBorrowField", "ImmBorrowFieldGeneric", "MutBorrowFieldGeneric",
      "CastU8", "CastU16", "CastU32", "CastU64", "CastU128", "CastU256",
      "Add", "Sub", "Mul", "Mod", "Div",
      "BitOr", "BitAnd", "Xor", "Shl", "Shr",
      "Or", "And", "Not",
      "Lt", "Gt", "Le", "Ge",
      "Abort" }

\* ------------------------------------------------------- parameter domains
\* A value descriptor is abstracted to the one thing a policy can price: a size.
ValueView == { 0, 1 }
TypeView == { "u64", "vector_u8" }
ModuleId == { "0x1::coin" }
FuncName == { "transfer", "mint" }
NumBytes == 0 .. MaxBytes
NumArgs == 0 .. MaxArgs
InternalGas == 0 .. MaxGas

\* Option<T>
None == [ tag |-> "None" ]
Some(v) == [ tag |-> "Some", val |-> v ]
Option(T) == { None } \cup { Some(v) : v \in T }
is_some(o) == o.tag = "Some"

SeqsUpTo(S, n) == UNION { [ 1 .. k -> S ] : k \in 0 .. n }
ValueSeqs == SeqsUpTo(ValueView, MaxArgs)
TypeSeqs == SeqsUpTo(TypeView, MaxTyArgs)

\* A lazy sequence handed to a charge operation: the elements it would yield and
\* how many of them have been pulled so far.
Iter(items) == [ items |-> items, pos |-> 0 ]
\* ExactSizeIterator::len
IterLen(it) == Len(it.items) - it.pos
\* Iterator::count: pulls every remaining element
Drain(it) == [ it EXCEPT !.pos = Len(it.items) ]

\* PartialVMResult<()>
Ok == "Ok"
MeteringFailure == "Err"

\* --------------------------------------------------- the trait's method surface
PartialVMResult == "PartialVMResult<()>"
Sig(params) == [ params |-> params, ret |-> PartialVMResult ]

ExactValues == "impl ExactSizeIterator<Item = impl ValueView>"
ExactTypes == "impl ExactSizeIterator<Item = impl TypeView>"
IntoValues == "impl IntoIterator<Item = impl ValueView>"

\* pub trait GasMeter { ... }: every method with its parameter kinds (after &mut self).
GasMeter ==
    [ charge_simple_instr   |-> Sig(<< "SimpleInstruction" >>),
      charge_call           |-> Sig(<< "&ModuleId", "&str", ExactValues >>),
      charge_call_generic   |-> Sig(<< "&ModuleId", "&str", ExactTypes, ExactValues >>),
      charge_ld_const       |-> Sig(<< "NumBytes" >>),
      charge_copy_loc       |-> Sig(<< "impl ValueView" >>),
      charge_move_loc       |-> Sig(<< "impl ValueView" >>),
      charge_store_loc      |-> Sig(<< "impl ValueView" >>),
      charge_pack           |-> Sig(<< "bool", ExactValues >>),
      charge_unpack         |-> Sig(<< "bool", ExactValues >>),
      charge_read_ref       |-> Sig(<< "impl ValueView" >>),
      charge_write_ref      |-> Sig(<< "impl ValueView" >>),
      charge_eq             |-> Sig(<< "impl ValueView", "impl ValueView" >>),
      charge_neq            |-> Sig(<< "impl ValueView", "impl ValueView" >>),
      charge_borrow_global  |-> Sig(<< "bool", "bool", "impl TypeView", "bool" >>),
      charge_exists         |-> Sig(<< "bool", "impl TypeView", "bool" >>),
      charge_move_from      |-> Sig(<< "bool", "impl TypeView", "Option<impl ValueView>" >>),
      charge_move_to        |-> Sig(<< "bool", "impl TypeView", "impl ValueView", "bool" >>),
      charge_vec_pack       |-> Sig(<< "impl TypeView", ExactValues >>),
      charge_vec_len        |-> Sig(<< "impl TypeView" >>),
      charge_vec_borrow     |-> Sig(<< "bool", "impl TypeView", "bool" >>),
      charge_vec_push_back  |-> Sig(<< "impl TypeView", "impl ValueView" >>),
      charge_vec_pop_back   |-> Sig(<< "impl TypeView", "Option<impl ValueView>" >>),
      charge_vec_unpack     |-> Sig(<< "impl TypeView", "NumArgs" >>),
      charge_vec_swap       |-> Sig(<< "impl TypeView" >>),
      charge_load_resource  |-> Sig(<< "Option<NumBytes>" >>),
      charge_native_function |-> Sig(<< "InternalGas" >>) ]

\* impl GasMeter for UnmeteredGasMeter { ... }: the methods as the impl block writes them.
impl_GasMeter_for_UnmeteredGasMeter ==
    [ charge_simple_instr   |-> Sig(<< "SimpleInstruction" >>),
      charge_call           |-> Sig(<< "&ModuleId", "&str", IntoValues >>),
      charge_call_generic   |-> Sig(<< "&ModuleId", "&str", ExactTypes, ExactValues >>),
      charge_ld_const       |-> Sig(<< "NumBytes" >>),
      charge_copy_loc       |-> Sig(<< "impl ValueView" >>),
      charge_move_loc       |-> Sig(<< "impl ValueView" >>),
      charge_store_loc      |-> Sig(<< "impl ValueView" >>),
      charge_pack           |-> Sig(<< "bool", ExactValues >>),
      charge_unpack         |-> Sig(<< "bool", ExactValues >>),
      charge_read_ref       |-> Sig(<< "impl ValueView" >>),
      charge_write_ref      |-> Sig(<< "impl ValueView" >>),
      charge_eq             |-> Sig(<< "impl ValueView", "impl ValueView" >>),
      charge_neq            |-> Sig(<< "impl ValueView", "impl ValueView" >>),
      charge_borrow_global  |-> Sig(<< "bool", "bool", "impl TypeView", "bool" >>),
      charge_exists         |-> Sig(<< "bool", "impl TypeView", "bool" >>),
      charge_move_from      |-> Sig(<< "bool", "impl TypeView", "Option<impl ValueView>" >>),
      charge_move_to        |-> Sig(<< "bool", "impl TypeView", "impl ValueView", "bool" >>),
      charge_vec_pack       |-> Sig(<< "impl TypeView", ExactValues >>),
      charge_vec_len        |-> Sig(<< "impl TypeView" >>),
      charge_vec_borrow     |-> Sig(<< "bool", "impl TypeView", "bool" >>),
      charge_vec_push_back  |-> Sig(<< "impl TypeView", "impl ValueView" >>),
      charge_vec_pop_back   |-> Sig(<< "impl TypeView", "Option<impl ValueView>" >>),
      charge_vec_unpack     |-> Sig(<< "impl TypeView", "NumArgs" >>),
      charge_vec_swap       |-> Sig(<< "impl TypeView" >>),
      charge_load_resource  |-> Sig(<< "Option<NumBytes>" >>),
      charge_native_function |-> Sig(<< "InternalGas" >>) ]

ParametricOps == DOMAIN GasMeter \ { "charge_simple_instr" }


\* ------------------------------------------- what each trait method call carries
\* One constructor per method of the trait: the event a call delivers to the policy
\* is the method's name with the values of its declared parameters.
GasMeter_charge_simple_instr(instr) ==
    [ op |-> "charge_simple_instr", instr |-> instr ]
GasMeter_charge_call(module_id, func_name, args) ==
    [ op |-> "charge_call", module_id |-> module_id, func_name |-> func_name,
      args |-> args ]
GasMeter_charge_call_generic(module_id, func_name, ty_args, args) ==
    [ op |-> "charge_call_generic", module_id |-> module_id, func_name |-> func_name,
      ty_args |-> ty_args, args |-> args ]
GasMeter_charge_ld_const(size) ==
    [ op |-> "charge_ld_const", size |-> size ]
GasMeter_charge_copy_loc(val) ==
    [ op |-> "charge_copy_loc", val |-> val ]
GasMeter_charge_move_loc(val) ==
    [ op |-> "charge_move_loc", val |-> val ]
GasMeter_charge_store_loc(val) ==
    [ op |-> "charge_store_loc", val |-> val ]
GasMeter_charge_pack(is_generic, args) ==
    [ op |-> "charge_pack", is_generic |-> is_generic, args |-> args ]
GasMeter_charge_unpack(is_generic, args) ==
    [ op |-> "charge_unpack", is_generic |-> is_generic, args |-> args ]
GasMeter_charge_read_ref(val) ==
    [ op |-> "charge_read_ref", val |-> val ]
GasMeter_charge_write_ref(val) ==
    [ op |-> "charge_write_ref", val |-> val ]
GasMeter_charge_eq(lhs, rhs) ==
    [ op |-> "charge_eq", lhs |-> lhs, rhs |-> rhs ]
GasMeter_charge_neq(lhs, rhs) ==
    [ op |-> "charge_neq", lhs |-> lhs, rhs |-> rhs ]
GasMeter_charge_borrow_global(is_mut, is_generic, ty, is_success) ==
    [ op |-> "charge_borrow_global", is_mut |-> is_mut, is_generic |-> is_generic,
      ty |-> ty, is_success |-> is_success ]
\* Variant: the outcome parameter dropped from the signature.
GasMeter_charge_exists_without_outcome(is_generic, ty, exists) ==
    [ op |-> "charge_exists", is_generic |-> is_generic, ty |-> ty ]
GasMeter_charge_exists(is_generic, ty, exists) ==
    [ op |-> "charge_exists", is_generic |-> is_generic, ty |-> ty,
      exists |-> exists ]
GasMeter_charge_move_from(is_generic, ty, val) ==
    [ op |-> "charge_move_from", is_generic |-> is_generic, ty |-> ty, val |-> val ]
GasMeter_charge_move_to(is_generic, ty, val, is_success) ==
    [ op |-> "charge_move_to", is_generic |-> is_generic, ty |-> ty, val |-> val,
      is_success |-> is_success ]
GasMeter_charge_vec_pack(ty, args) ==
    [ op |-> "charge_vec_pack", ty |-> ty, args |-> args ]
GasMeter_charge_vec_len(ty) ==
    [ op |-> "charge_vec_len", ty |-> ty ]
GasMeter_charge_vec_borrow(is_mut, ty, is_success) ==
    [ op |-> "charge_vec_borrow", is_mut |-> is_mut, ty |-> ty,
      is_success |-> is_success ]
GasMeter_charge_vec_push_back(ty, val) ==
    [ op |-> "charge_vec_push_back", ty |-> ty, val |-> val ]
GasMeter_charge_vec_pop_back(ty, val) ==
    [ op |-> "charge_vec_pop_back", ty |-> ty, val |-> val ]
GasMeter_charge_vec_unpack(ty, expect_num_elements) ==
    [ op |-> "charge_vec_unpack", ty |-> ty,
      expect_num_elements |-> expect_num_elements ]
GasMeter_charge_vec_swap(ty) ==
    [ op |-> "charge_vec_swap", ty |-> ty ]
\* Variant: a plain byte count with 0 standing for "nothing was there".
GasMeter_charge_load_resource_sentinel(loaded) ==
    [ op |-> "charge_load_resource",
      loaded |-> IF is_some(loaded) THEN loaded.val ELSE 0 ]
GasMeter_charge_load_resource(loaded) ==
    [ op |-> "charge_load_resource", loaded |-> loaded ]
GasMeter_charge_native_function(amount) ==
    [ op |-> "charge_native_function", amount |-> amount ]

\* ------------------------------------------------------- UnmeteredGasMeter
\* pub struct UnmeteredGasMeter;  -- a unit struct: the tuple of its (no) fields.
UnmeteredGasMeter == << >>

\* What a method body does, as a record:
\*   self   the receiver after the call,
\*   result the value returned,
\*   iters  the lazy sequences it was handed, as the body leaves them,
\*   reads  the parameters whose descriptors the body looked at.
\* Every body of the impl block is `Ok(())` over parameters it never names.
\* Variant: the meter keeps a tally of the instructions it was charged for.
charge_simple_instr_tallies(self, _instr) ==
    [ self |-> Append(self, 1), result |-> Ok, iters |-> << >>, reads |-> {} ]
charge_simple_instr(self, _instr) ==
    [ self |-> self, result |-> Ok, iters |-> << >>, reads |-> {} ]
\* Variant: the argument sequence is counted by running it to its end.
charge_call_drains(self, _module_id, _func_name, _args) ==
    [ self |-> self, result |-> Ok, iters |-> [ args |-> Drain(_args) ],
      reads |-> {} ]
charge_call(self, _module_id, _func_name, _args) ==
    [ self |-> self, result |-> Ok, iters |-> [ args |-> _args ], reads |-> {} ]
charge_call_generic(self, _module_id, _func_name, _ty_args, _args) ==
    [ self |-> self, result |-> Ok,
      iters |-> [ ty_args |-> _ty_args, args |-> _args ], reads |-> {} ]
\* Variant: the meter remembers the bytes it has seen and refuses past a limit.
charge_ld_const_accumulates(self, _size) ==
    [ self |-> Append(self, _size),
      result |-> IF Len(self) >= 1 THEN MeteringFailure ELSE Ok,
      iters |-> << >>, reads |-> { "size" } ]
charge_ld_const(self, _size) ==
    [ self |-> self, result |-> Ok, iters |-> << >>, reads |-> {} ]
charge_copy_loc(self, _val) ==
    [ self |-> self, result |-> Ok, iters |-> << >>, reads |-> {} ]
charge_move_loc(self, _val) ==
    [ self |-> self, result |-> Ok, iters |-> << >>, reads |-> {} ]
charge_store_loc(self, _val) ==
    [ self |-> self, result |-> Ok, iters |-> << >>, reads |-> {} ]
charge_pack(self, _is_generic, _args) ==
    [ self |-> self, result |-> Ok, iters |-> [ args |-> _args ], reads |-> {} ]
charge_unpack(self, _is_generic, _args) ==
    [ self |-> self, result |-> Ok, iters |-> [ args |-> _args ], reads |-> {} ]
charge_read_ref(self, _val) ==
    [ self |-> self, result |-> Ok, iters |-> << >>, reads |-> {} ]
charge_write_ref(self, _val) ==
    [ self |-> self, result |-> Ok, iters |-> << >>, reads |-> {} ]
charge_eq(self, _lhs, _rhs) ==
    [ self |-> self, result |-> Ok, iters |-> << >>, reads |-> {} ]
charge_neq(self, _lhs, _rhs) ==
    [ self |-> self, result |-> Ok, iters |-> << >>, reads |-> {} ]
charge_borrow_global(self, _is_mut, _is_generic, _ty, _is_success) ==
    [ self |-> self, result |-> Ok, iters |-> << >>, reads |-> {} ]
charge_exists(self, _is_generic, _ty, _exists) ==
    [ self |-> self, result |-> Ok, iters |-> << >>, reads |-> {} ]
charge_move_from(self, _is_generic, _ty, _val) ==
    [ self |-> self, result |-> Ok, iters |-> << >>, reads |-> {} ]
charge_move_to(self, _is_generic, _ty, _val, _is_success) ==
    [ self |-> self, result |-> Ok, iters |-> << >>, reads |-> {} ]
charge_vec_pack(self, _ty, _args) ==
    [ self |-> self, result |-> Ok, iters |-> [ args |-> _args ], reads |-> {} ]
charge_vec_len(self, _ty) ==
    [ self |-> self, result |-> Ok, iters |-> << >>, reads |-> {} ]
charge_vec_borrow(self, _is_mut, _ty, _is_success) ==
    [ self |-> self, result |-> Ok, iters |-> << >>, reads |-> {} ]
charge_vec_push_back(self, _ty, _val) ==
    [ self |-> self, result |-> Ok, iters |-> << >>, reads |-> {} ]
\* Variant: popping from an empty vector is refused by the meter.
charge_vec_pop_back_rejects_none(self, _ty, _val) ==
    [ self |-> self, result |-> IF is_some(_val) THEN Ok ELSE MeteringFailure,
      iters |-> << >>, reads |-> { "val" } ]
charge_vec_pop_back(self, _ty, _val) ==
    [ self |-> self, result |-> Ok, iters |-> << >>, reads |-> {} ]
charge_vec_unpack(self, _ty, _expect_num_elements) ==
    [ self |-> self, result |-> Ok, iters |-> << >>, reads |-> {} ]
charge_vec_swap(self, _ty) ==
    [ self |-> self, result |-> Ok, iters |-> << >>, reads |-> {} ]
charge_load_resource(self, _loaded) ==
    [ self |-> self, result |-> Ok, iters |-> << >>, reads |-> {} ]
\* Variant: a meter with an empty budget, refusing any positive amount.
charge_native_function_zero_budget(self, _amount) ==
    [ self |-> self, result |-> IF _amount > 0 THEN MeteringFailure ELSE Ok,
      iters |-> << >>, reads |-> { "amount" } ]
charge_native_function(self, _amount) ==
    [ self |-> self, result |-> Ok, iters |-> << >>, reads |-> {} ]

\* ------------------------------------------------------------------- state
Sessions == { "s1", "s2" }

VARIABLES
    meter,    \* meter[s]: the policy instance session s owns
    status,   \* status[s]: "active", or "failed" once a charge returned Err
    ncalls,   \* ncalls[s]: charge calls session s has made
    last      \* the most recent charge call: who made it, what it carried, what it did

\* A session driven by a script against a budgeted policy.
VARIABLES
    policy,   \* the budgeted policy instance: its balance and its pricing
    budget0,  \* the balance the policy was created with
    script,   \* the charge calls the session is to make, in order
    pc,       \* index in script of the next call
    nexec,    \* charge calls executed so far
    bstatus,  \* "active", or "failed" once a charge returned Err
    blast     \* the most recent charge against the budgeted policy

nullvars == << meter, status, ncalls, last >>
budgetvars == << policy, budget0, script, pc, nexec, bstatus, blast >>
vars == << meter, status, ncalls, last,
           policy, budget0, script, pc, nexec, bstatus, blast >>

NoCall ==
    [ session |-> "none", event |-> [ op |-> "none" ],
      sig |-> Sig(<< >>), pre |-> UnmeteredGasMeter, post |-> UnmeteredGasMeter,
      result |-> Ok, iters |-> << >>, reads |-> {} ]

NoCharge == [ op |-> "none", amount |-> 0, pre |-> 0, post |-> 0, result |-> Ok ]

InitNull ==
    /\ meter = [ s \in Sessions |-> UnmeteredGasMeter ]
    /\ status = [ s \in Sessions |-> "active" ]
    /\ ncalls = [ s \in Sessions |-> 0 ]
    /\ last = NoCall

Init ==
    /\ InitNull
    /\ policy = [ budget |-> 0, fixed |-> None ]
    /\ budget0 = 0
    /\ script = << >>
    /\ pc = 1
    /\ nexec = 0
    /\ bstatus = "active"
    /\ blast = NoCharge

\* One chargeable step of session s: the interpreter makes the call `ev` on the
\* session's own instance; the call runs the impl block's method of that name, whose
\* body yields `out`; a failure ends the session.
Invoke(s, ev, out) ==
    /\ status[s] = "active"
    /\ ncalls[s] < MaxCalls
    /\ meter' = [ meter EXCEPT ![s] = out.self ]
    /\ status' = [ status EXCEPT ![s] = IF out.result = Ok THEN "active" ELSE "failed" ]
    /\ ncalls' = [ ncalls EXCEPT ![s] = @ + 1 ]
    /\ last' = [ session |-> s, event |-> ev,
                 sig |-> impl_GasMeter_for_UnmeteredGasMeter[ev.op],
                 pre |-> meter[s], post |-> out.self,
                 result |-> out.result, iters |-> out.iters, reads |-> out.reads ]
    /\ UNCHANGED budgetvars

\* ----------------------------------------------------------------- actions
ChargeSimpleInstr(s) ==
    \E instr \in SimpleInstruction :
        Invoke(s, GasMeter_charge_simple_instr(instr),
               charge_simple_instr(meter[s], instr))

ChargeCall(s) ==
    \E m \in ModuleId, f \in FuncName, args \in ValueSeqs :
        Invoke(s, GasMeter_charge_call(m, f, args),
               charge_call(meter[s], m, f, Iter(args)))

ChargeCallGeneric(s) ==
    \E m \in ModuleId, f \in FuncName, ty_args \in TypeSeqs, args \in ValueSeqs :
        Invoke(s, GasMeter_charge_call_generic(m, f, ty_args, args),
               charge_call_generic(meter[s], m, f, Iter(ty_args), Iter(args)))

ChargeLdConst(s) ==
    \E size \in NumBytes :
        Invoke(s, GasMeter_charge_ld_const(size), charge_ld_const(meter[s], size))

ChargeCopyLoc(s) ==
    \E val \in ValueView :
        Invoke(s, GasMeter_charge_copy_loc(val), charge_copy_loc(meter[s], val))

ChargeMoveLoc(s) ==
    \E val \in ValueView :
        Invoke(s, GasMeter_charge_move_loc(val), charge_move_loc(meter[s], val))

ChargeStoreLoc(s) ==
    \E val \in ValueView :
        Invoke(s, GasMeter_charge_store_loc(val), charge_store_loc(meter[s], val))

ChargePack(s) ==
    \E is_generic \in BOOLEAN, args \in ValueSeqs :
        Invoke(s, GasMeter_charge_pack(is_generic, args),
               charge_pack(meter[s], is_generic, Iter(args)))

ChargeUnpack(s) ==
    \E is_generic \in BOOLEAN, args \in ValueSeqs :
        Invoke(s, GasMeter_charge_unpack(is_generic, args),
               charge_unpack(meter[s], is_generic, Iter(args)))

ChargeReadRef(s) ==
    \E val \in ValueView :
        Invoke(s, GasMeter_charge_read_ref(val), charge_read_ref(meter[s], val))

ChargeWriteRef(s) ==
    \E val \in ValueView :
        Invoke(s, GasMeter_charge_write_ref(val), charge_write_ref(meter[s], val))

ChargeEq(s) ==
    \E lhs \in ValueView, rhs \in ValueView :
        Invoke(s, GasMeter_charge_eq(lhs, rhs), charge_eq(meter[s], lhs, rhs))

ChargeNeq(s) ==
    \E lhs \in ValueView, rhs \in ValueView :
        Invoke(s, GasMeter_charge_neq(lhs, rhs), charge_neq(meter[s], lhs, rhs))

ChargeBorrowGlobal(s) ==
    \E is_mut \in BOOLEAN, is_generic \in BOOLEAN, ty \in TypeView,
       is_success \in BOOLEAN :
        Invoke(s, GasMeter_charge_borrow_global(is_mut, is_generic, ty, is_success),
               charge_borrow_global(meter[s], is_mut, is_generic, ty, is_success))

ChargeExists(s) ==
    \E is_generic \in BOOLEAN, ty \in TypeView, exists \in BOOLEAN :
        Invoke(s, GasMeter_charge_exists(is_generic, ty, exists),
               charge_exists(meter[s], is_generic, ty, exists))

ChargeMoveFrom(s) ==
    \E is_generic \in BOOLEAN, ty \in TypeView, val \in Option(ValueView) :
        Invoke(s, GasMeter_charge_move_from(is_generic, ty, val),
               charge_move_from(meter[s], is_generic, ty, val))

ChargeMoveTo(s) ==
    \E is_generic \in BOOLEAN, ty \in TypeView, val \in ValueView,
       is_success \in BOOLEAN :
        Invoke(s, GasMeter_charge_move_to(is_generic, ty, val, is_success),
               charge_move_to(meter[s], is_generic, ty, val, is_success))

ChargeVecPack(s) ==
    \E ty \in TypeView, args \in ValueSeqs :
        Invoke(s, GasMeter_charge_vec_pack(ty, args),
               charge_vec_pack(meter[s], ty, Iter(args)))

ChargeVecLen(s) ==
    \E ty \in TypeView :
        Invoke(s, GasMeter_charge_vec_len(ty), charge_vec_len(meter[s], ty))

ChargeVecBorrow(s) ==
    \E is_mut \in BOOLEAN, ty \in TypeView, is_success \in BOOLEAN :
        Invoke(s, GasMeter_charge_vec_borrow(is_mut, ty, is_success),
               charge_vec_borrow(meter[s], is_mut, ty, is_success))

ChargeVecPushBack(s) ==
    \E ty \in TypeView, val \in ValueView :
        Invoke(s, GasMeter_charge_vec_push_back(ty, val),
               charge_vec_push_back(meter[s], ty, val))

ChargeVecPopBack(s) ==
    \E ty \in TypeView, val \in Option(ValueView) :
        Invoke(s, GasMeter_charge_vec_pop_back(ty, val),
               charge_vec_pop_back(meter[s], ty, val))

ChargeVecUnpack(s) ==
    \E ty \in TypeView, expect_num_elements \in NumArgs :
        Invoke(s, GasMeter_charge_vec_unpack(ty, expect_num_elements),
               charge_vec_unpack(meter[s], ty, expect_num_elements))

ChargeVecSwap(s) ==
    \E ty \in TypeView :
        Invoke(s, GasMeter_charge_vec_swap(ty), charge_vec_swap(meter[s], ty))

ChargeLoadResource(s) ==
    \E loaded \in Option(NumBytes) :
        Invoke(s, GasMeter_charge_load_resource(loaded),
               charge_load_resource(meter[s], loaded))

ChargeNativeFunction(s) ==
    \E amount \in InternalGas :
        Invoke(s, GasMeter_charge_native_function(amount),
               charge_native_function(meter[s], amount))

Next ==
    \E s \in Sessions :
        \/ ChargeSimpleInstr(s)
        \/ ChargeCall(s)
        \/ ChargeCallGeneric(s)
        \/ ChargeLdConst(s)
        \/ ChargeCopyLoc(s)
        \/ ChargeMoveLoc(s)
        \/ ChargeStoreLoc(s)
        \/ ChargePack(s)
        \/ ChargeUnpack(s)
        \/ ChargeReadRef(s)
        \/ ChargeWriteRef(s)
        \/ ChargeEq(s)
        \/ ChargeNeq(s)
        \/ ChargeBorrowGlobal(s)
        \/ ChargeExists(s)
        \/ ChargeMoveFrom(s)
        \/ ChargeMoveTo(s)
        \/ ChargeVecPack(s)
        \/ ChargeVecLen(s)
        \/ ChargeVecBorrow(s)
        \/ ChargeVecPushBack(s)
        \/ ChargeVecPopBack(s)
        \/ ChargeVecUnpack(s)
        \/ ChargeVecSwap(s)
        \/ ChargeLoadResource(s)
        \/ ChargeNativeFunction(s)

Spec == Init /\ [][Next]_vars

\* ------------------------------------------------------- a budgeted policy
\* A policy that implements the trait over a finite balance. It prices a call
\* either at one fixed amount (fixed = Some(a)) or by a schedule: 1 per simple
\* instruction, 2 per call argument, 1 per byte loaded, the reported amount for
\* a native function.
Schedule(ev) ==
    CASE ev.op = "charge_simple_instr" -> 1
      [] ev.op = "charge_call" -> 2 * Len(ev.args)
      [] ev.op = "charge_load_resource" ->
             IF is_some(ev.loaded) THEN ev.loaded.val ELSE 0
      [] ev.op = "charge_native_function" -> ev.amount

Price(self, ev) == IF is_some(self.fixed) THEN self.fixed.val ELSE Schedule(ev)

\* Variant: the comparison is strict, so the last unit can never be spent.
deduct_strict(self, amount) ==
    IF self.budget > amount
    THEN [ self |-> [ self EXCEPT !.budget = @ - amount ], result |-> Ok ]
    ELSE [ self |-> self, result |-> MeteringFailure ]
\* Variant: running out zeroes the balance.
deduct_zeroes_on_failure(self, amount) ==
    IF self.budget >= amount
    THEN [ self |-> [ self EXCEPT !.budget = @ - amount ], result |-> Ok ]
    ELSE [ self |-> [ self EXCEPT !.budget = 0 ], result |-> MeteringFailure ]
\* Debit `amount`, or fail and leave the balance alone.
deduct(self, amount) ==
    IF self.budget >= amount
    THEN [ self |-> [ self EXCEPT !.budget = @ - amount ], result |-> Ok ]
    ELSE [ self |-> self, result |-> MeteringFailure ]

\* The policy's methods: each prices the call it is handed and debits the price.
budgeted_charge_simple_instr(self, instr) ==
    deduct(self, Price(self, GasMeter_charge_simple_instr(instr)))
budgeted_charge_call(self, module_id, func_name, args) ==
    deduct(self, Price(self, GasMeter_charge_call(module_id, func_name, args)))
budgeted_charge_load_resource(self, loaded) ==
    deduct(self, Price(self, GasMeter_charge_load_resource(loaded)))
budgeted_charge_native_function(self, amount) ==
    deduct(self, Price(self, GasMeter_charge_native_function(amount)))

InitialBudgets == { 0, 7, 100 }
FixedAmounts == { 0, 3 }
ScriptCalls ==
    { GasMeter_charge_simple_instr("Add"),
      GasMeter_charge_call("0x1::coin", "transfer", << 0, 1, 1 >>),
      GasMeter_charge_load_resource(Some(1000)),
      GasMeter_charge_load_resource(None),
      GasMeter_charge_native_function(5) }

InitBudget ==
    /\ InitNull
    /\ budget0 \in InitialBudgets
    /\ policy \in [ budget : { budget0 }, fixed : Option(FixedAmounts) ]
    /\ script \in SeqsUpTo(ScriptCalls, MaxScript)
    /\ pc = 1
    /\ nexec = 0
    /\ bstatus = "active"
    /\ blast = NoCharge

\* The session makes the next call of its script, `ev`, and the policy's method
\* yields `out`; a failure ends the session.
BudgetInvoke(ev, out) ==
    /\ policy' = out.self
    /\ bstatus' = IF out.result = Ok THEN "active" ELSE "failed"
    /\ pc' = IF out.result = Ok THEN pc + 1 ELSE pc
    /\ nexec' = nexec + 1
    /\ blast' = [ op |-> ev.op, amount |-> Price(policy, ev),
                  pre |-> policy.budget, post |-> out.self.budget,
                  result |-> out.result ]
    /\ UNCHANGED << budget0, script >>
    /\ UNCHANGED nullvars

\* The next call of the script is due and is a call of method `op`.
Due(op) ==
    /\ bstatus = "active"
    /\ pc <= Len(script)
    /\ script[pc].op = op

BudgetChargeSimpleInstr ==
    /\ Due("charge_simple_instr")
    /\ BudgetInvoke(script[pc],
                    budgeted_charge_simple_instr(policy, script[pc].instr))

BudgetChargeCall ==
    /\ Due("charge_call")
    /\ BudgetInvoke(script[pc],
                    budgeted_charge_call(policy, script[pc].module_id,
                                         script[pc].func_name, script[pc].args))

BudgetChargeLoadResource ==
    /\ Due("charge_load_resource")
    /\ BudgetInvoke(script[pc],
                    budgeted_charge_load_resource(policy, script[pc].loaded))

BudgetChargeNativeFunction ==
    /\ Due("charge_native_function")
    /\ BudgetInvoke(script[pc],
                    budgeted_charge_native_function(policy, script[pc].amount))

NextBudget ==
    \/ BudgetChargeSimpleInstr
    \/ BudgetChargeCall
    \/ BudgetChargeLoadResource
    \/ BudgetChargeNativeFunction

SpecBudget == InitBudget /\ [][NextBudget]_vars

RECURSIVE SumPrices(_, _, _)
\* The prices of the first n calls of script s, added up.
SumPrices(self, s, n) ==
    IF n = 0 THEN 0 ELSE SumPrices(self, s, n - 1) + Price(self, s[n])

\* ------------------------------------------------------------- properties

\* C1: for each of the 45 SimpleInstruction tags, charge_simple_instr on the
\* unmetered meter returns Ok and leaves the meter as it was, whatever calls
\* came before.
C1_SimpleInstrOkNoChange ==
    last.event.op = "charge_simple_instr" =>
        /\ last.event.instr \in SimpleInstruction
        /\ last.result = Ok
        /\ last.post = last.pre
        /\ meter[last.session] = last.pre

\* The last of the 45 tags charged as a session's MaxCalls-th call.
C1_Witness ==
    /\ Cardinality(SimpleInstruction) = 45
    /\ last.event.op = "charge_simple_instr"
    /\ last.event.instr = "Abort"
    /\ ncalls[last.session] = MaxCalls
    /\ last.result = Ok

\* C2: each of the 25 parametric charge operations of the unmetered meter
\* returns Ok for every input: empty sequences, zero counts, None and Some,
\* either value of every flag.
C2_ParametricOpsSucceed ==
    last.event.op \in ParametricOps => last.result = Ok

\* A generic call with no type arguments and no arguments.
C2_Witness ==
    /\ Cardinality(ParametricOps) = 25
    /\ last.event.op = "charge_call_generic"
    /\ last.event.ty_args = << >>
    /\ last.event.args = << >>
    /\ last.result = Ok

\* C3: no charge call on the unmetered meter returns a metering failure, so no
\* session ever leaves the active state.
C3_NeverFailed ==
    /\ last.result # MeteringFailure
    /\ \A s \in Sessions : status[s] = "active"

\* Every session has made all the calls the bound allows and is still active.
C3_Witness ==
    \A s \in Sessions : ncalls[s] = MaxCalls /\ status[s] = "active"

\* C4: the impl block of UnmeteredGasMeter has the trait's method surface: the
\* same 26 methods, each with the same parameter kinds and the same result type.
\* Stated of every call: the method it runs is declared in the impl block exactly
\* as the trait declares it.
C4_SameMethodSurface ==
    last.event.op # "none" =>
        /\ Cardinality(DOMAIN GasMeter) = 26
        /\ DOMAIN impl_GasMeter_for_UnmeteredGasMeter = DOMAIN GasMeter
        /\ last.sig = GasMeter[last.event.op]

\* C5: the unmetered meter pulls no element from any lazy sequence it is
\* handed and reads no descriptor.
C5_NoArgumentInspection ==
    /\ last.reads = {}
    /\ \A k \in DOMAIN last.iters :
           /\ last.iters[k].pos = 0
           /\ IterLen(last.iters[k]) = Len(last.event[k])

\* A generic call with the longest sequences, both handed back untouched.
C5_Witness ==
    /\ last.event.op = "charge_call_generic"
    /\ Len(last.event.args) = MaxArgs
    /\ Len(last.event.ty_args) = MaxTyArgs
    /\ last.iters.args.pos = 0
    /\ last.iters.ty_args.pos = 0

\* C6: a charge_load_resource event tells the policy whether bytes were loaded:
\* no event is delivered both for some Some(n) and for None, n = 0 included.
C6_LoadedSomeNoneDistinct ==
    last.event.op = "charge_load_resource" =>
        \A o1, o2 \in Option(NumBytes) :
            ( /\ GasMeter_charge_load_resource(o1) = last.event
              /\ GasMeter_charge_load_resource(o2) = last.event )
            => is_some(o1) = is_some(o2)

\* A cold load of zero bytes reached the policy.
C6_Witness ==
    /\ last.event.op = "charge_load_resource"
    /\ last.event = GasMeter_charge_load_resource(Some(0))
    /\ last.event # GasMeter_charge_load_resource(None)

\* C7: for charge_exists, charge_move_from and charge_borrow_global the outcome
\* is part of the event: with the other arguments equal, calls that differ in
\* the outcome are delivered as different events.
C7_OutcomeObservable ==
    /\ last.event.op = "charge_exists" =>
           \A g \in BOOLEAN, ty \in TypeView, e1, e2 \in BOOLEAN :
               ( /\ GasMeter_charge_exists(g, ty, e1) = last.event
                 /\ GasMeter_charge_exists(g, ty, e2) = last.event )
               => e1 = e2
    /\ last.event.op = "charge_move_from" =>
           \A g \in BOOLEAN, ty \in TypeView, v1, v2 \in Option(ValueView) :
               ( /\ GasMeter_charge_move_from(g, ty, v1) = last.event
                 /\ GasMeter_charge_move_from(g, ty, v2) = last.event )
               => is_some(v1) = is_some(v2)
    /\ last.event.op = "charge_borrow_global" =>
           \A m \in BOOLEAN, g \in BOOLEAN, ty \in TypeView, b1, b2 \in BOOLEAN :
               ( /\ GasMeter_charge_borrow_global(m, g, ty, b1) = last.event
                 /\ GasMeter_charge_borrow_global(m, g, ty, b2) = last.event )
               => b1 = b2

\* An existence check that found nothing reached the policy.
C7_Witness ==
    /\ last.event.op = "charge_exists"
    /\ last.event.exists = FALSE
    /\ last.event # GasMeter_charge_exists(last.event.is_generic, last.event.ty, TRUE)

\* C10: sessions with separate unmetered meters are independent: a call by one
\* session changes nothing another session holds, and it finds its own meter as
\* constructed, so its result does not depend on the calls made before it.
C10_SessionsIndependent ==
    [][ /\ \A s \in Sessions :
               s # last'.session =>
                   /\ meter'[s] = meter[s]
                   /\ status'[s] = status[s]
                   /\ ncalls'[s] = ncalls[s]
        /\ last'.pre = UnmeteredGasMeter
        /\ last'.post = UnmeteredGasMeter
        /\ last'.result = Ok ]_vars

\* Two sessions have both made all their calls, the last one by s1.
C10_Witness ==
    /\ last.session = "s1"
    /\ \A s \in Sessions : ncalls[s] = MaxCalls
    /\ \A s \in Sessions : meter[s] = UnmeteredGasMeter

\* C8: a policy with a finite budget and a fixed per-call amount (a) succeeds
\* when budget >= amount and lowers the budget by exactly amount, (b) fails
\* with a metering failure exactly when budget < amount and leaves the budget
\* unchanged; the budget never increases and never goes below zero.
C8_FixedAmountDebit ==
    ( is_some(policy.fixed) /\ blast.op # "none" ) =>
        /\ blast.amount = policy.fixed.val
        /\ blast.pre >= blast.amount =>
               ( blast.result = Ok /\ blast.post = blast.pre - blast.amount )
        /\ blast.pre < blast.amount =>
               ( blast.result = MeteringFailure /\ blast.post = blast.pre )
        /\ blast.result = MeteringFailure <=> blast.pre < blast.amount
        /\ policy.budget = blast.post
        /\ blast.post <= blast.pre
        /\ policy.budget >= 0
        /\ policy.budget <= budget0

\* Budget 7 at 3 a call: two calls succeed, the third fails with 1 left.
C8_Witness ==
    /\ policy.fixed = Some(3)
    /\ budget0 = 7
    /\ nexec = 3
    /\ bstatus = "failed"
    /\ blast.result = MeteringFailure
    /\ blast.pre = 1
    /\ policy.budget = 1

\* C9: against a budgeted policy the total debit is the sum of the prices of the
\* calls that went through, the session fails at the first call whose price
\* would take the cumulative debit over the budget, and no call is executed
\* after that failure.
C9_ScriptedSequence ==
    LET done == pc - 1
        sum(n) == SumPrices(policy, script, n)
    IN  /\ budget0 - policy.budget = sum(done)
        /\ \A n \in 0 .. done : sum(n) <= budget0
        /\ bstatus = "failed" <=> ( nexec = pc /\ sum(pc) > budget0 )
        /\ bstatus = "active" => nexec = done
        /\ bstatus = "failed" => ~ ENABLED NextBudget

\* Budget 100: Add leaves 99, a call with 3 arguments leaves 93, loading 1000
\* bytes fails and 93 remain.
C9_Witness ==
    /\ budget0 = 100
    /\ policy.fixed = None
    /\ Len(script) = 3
    /\ script[1] = GasMeter_charge_simple_instr("Add")
    /\ script[2].op = "charge_call" /\ Len(script[2].args) = 3
    /\ script[3] = GasMeter_charge_load_resource(Some(1000))
    /\ bstatus = "failed"
    /\ nexec = 3
    /\ policy.budget = 93

====
